---- MODULE Spec2Model ----
\* Model of the feed aggregation of Email-news-app/main.py: fetch_feed and
\* harvest_all.  Time is counted in whole hours.  A datetime is a record
\* [kind, wall, off]: kind "naive" (no tzinfo, wall-clock hour `wall`), "aware"
\* (wall-clock hour `wall` at UTC offset `off`), or "none" (Python's None).
EXTENDS Integers, Sequences, FiniteSets, TLC

\* ------------------------------------------------------------------ bounds
MaxFeeds == 2      \* longest source list
MaxEntries == 2    \* most entries one feed delivers
MaxPerFeed == 2    \* largest --per_feed
MaxTotal == 2      \* largest --max
MaxSince == 1      \* largest --since
Now0 == 3          \* the hour at which harvest_all starts
MaxTick == 1       \* most hours that pass between two reads of the clock
MaxDrift == 2      \* most hours that pass during one run

MaxClock == Now0 + MaxDrift

\* ------------------------------------------------------------------ datetimes
None == [kind |-> "none", wall |-> 0, off |-> 0]
Naive(w) == [kind |-> "naive", wall |-> w, off |-> 0]
Aware(w, o) == [kind |-> "aware", wall |-> w, off |-> o]

Walls == {Now0 - 1, Now0 + 1}
Offsets == {0, 1}
Datetimes == {Naive(w) : w \in Walls} \cup {Aware(w, o) : w \in Walls, o \in Offsets}

\* What a feed entry holds under a date key: nothing, a string dateutil cannot
\* parse, or a string that parses to a datetime.
AbsentV == [kind |-> "absent", wall |-> 0, off |-> 0]
BadV == [kind |-> "bad", wall |-> 0, off |-> 0]

\* The comparable value of a datetime: an aware one compares by its UTC
\* instant, a naive one by its wall clock.
Instant(d) == d.wall - d.off

\* datetime.__lt__ raises TypeError between a naive and an aware datetime.
Comparable(d, e) == d.kind = e.kind

DtLess(d, e) == Instant(d) < Instant(e)

\* datetime.replace(tzinfo=timezone.utc): same wall clock, offset 0.
ReplaceTzUtc(d) == Aware(d.wall, 0)

\* ------------------------------------------------------------------ fetch_feed
DateKeys == <<"published", "updated", "created">>

\* The entries a feed may deliver (e.get(k) of a missing key is modelled by
\* the empty string for link and id, by AbsentV for a date key).
RawDates ==
    {[published |-> p, updated |-> AbsentV, created |-> AbsentV] :
        p \in {AbsentV, BadV} \cup Datetimes}
    \cup {[published |-> BadV, updated |-> Aware(Now0 + 1, 1), created |-> AbsentV]}

RawEntries ==
    {[link |-> l, id |-> i, dates |-> d] :
        l \in {"", "a"}, i \in {"", "b"}, d \in RawDates}

RECURSIVE SeqsUpTo(_, _)
SeqsUpTo(S, n) ==
    IF n = 0 THEN {<<>>}
    ELSE LET shorter == SeqsUpTo(S, n - 1)
         IN shorter \cup {Append(s, x) : s \in {t \in shorter : Len(t) = n - 1}, x \in S}

Feeds == SeqsUpTo(RawEntries, MaxEntries)

\* Lines 104-112: the first date key that is present and parses.
RECURSIVE ParsePublished(_, _)
ParsePublished(dates, k) ==
    IF k > Len(DateKeys) THEN None
    ELSE LET v == dates[DateKeys[k]]
         IN IF v.kind = "absent" THEN ParsePublished(dates, k + 1)
            ELSE IF v.kind = "bad" THEN ParsePublished(dates, k + 1)
            ELSE v

\* Line 113.
ResolveLink(e) == IF e.link # "" THEN e.link ELSE IF e.id # "" THEN e.id ELSE ""

\* Lines 102-121.  The source of an item is the index of its feed and its title
\* the position of its entry in the feed, so distinct entries stay distinct.
fetch_feed(src, entries) ==
    [n \in 1..Len(entries) |->
        [source |-> src,
         title |-> n,
         link |-> ResolveLink(entries[n]),
         published |-> ParsePublished(entries[n].dates, 1)]]

\* ------------------------------------------------------------------ sorting
\* key=lambda x: x["published"] or datetime.now(timezone.utc): list.sort calls
\* the key function once per element, in list order; each call that falls back
\* reads the clock, which has advanced by ticks[n] since the previous read.
RECURSIVE SortKeys(_, _, _, _)
SortKeys(its, ticks, now, n) ==
    IF n > Len(its) THEN <<>>
    ELSE IF its[n].published.kind = "none"
         THEN <<Aware(now + ticks[n], 0)>> \o SortKeys(its, ticks, now + ticks[n], n + 1)
         ELSE <<its[n].published>> \o SortKeys(its, ticks, now, n + 1)

\* The ticks of one sort: the clock is read only for the undated elements.
TickChoices(its) ==
    {t \in [1..Len(its) -> 0..MaxTick] :
        \A n \in 1..Len(its) : its[n].published.kind # "none" => t[n] = 0}

RECURSIVE SumSeq(_, _)
SumSeq(t, n) == IF n = 0 THEN 0 ELSE t[n] + SumSeq(t, n - 1)

\* The sort raises TypeError when it has to compare a naive key with an aware
\* one; ordering a list of two or more keys of both kinds needs such a
\* comparison.
SortRaises(ks) == \E m, n \in 1..Len(ks) : ~Comparable(ks[m], ks[n])

\* Mutant of InsertDesc: reverse=True forgotten, the sort ascends.
RECURSIVE InsertDesc_Ascending(_, _)
InsertDesc_Ascending(s, p) ==
    IF s = <<>> THEN <<p>>
    ELSE IF DtLess(p.key, Head(s).key) THEN <<p>> \o s
    ELSE <<Head(s)>> \o InsertDesc_Ascending(Tail(s), p)

\* Insert pair p into the descending sequence s behind every pair whose key is
\* not smaller (reverse=True keeps the original order of equal keys).
RECURSIVE InsertDesc(_, _)
InsertDesc(s, p) ==
    IF s = <<>> THEN <<p>>
    ELSE IF DtLess(Head(s).key, p.key) THEN <<p>> \o s
    ELSE <<Head(s)>> \o InsertDesc(Tail(s), p)

RECURSIVE SortPairs(_, _)
SortPairs(ps, n) == IF n = 0 THEN <<>> ELSE InsertDesc(SortPairs(ps, n - 1), ps[n])

\* list.sort(key=..., reverse=True) on `its` with the keys `ks`: the sorted
\* sequence of [item, key] pairs.
SortDesc(its, ks) ==
    SortPairs([n \in 1..Len(its) |-> [item |-> its[n], key |-> ks[n]]], Len(its))

ItemsOf(ps) == [n \in 1..Len(ps) |-> ps[n].item]
KeysOf(ps) == [n \in 1..Len(ps) |-> ps[n].key]

\* ------------------------------------------------------------------ state
VARIABLES
    nfeeds,       \* len(feeds)
    per_feed,     \* argument
    since_hours,  \* argument
    max_total,    \* argument
    clock,        \* the last value datetime.now(timezone.utc) returned
    cutoff,       \* line 125
    all_items,    \* line 126
    seen_links,   \* line 127
    fi,           \* position of the outer loop in feeds
    fetched,      \* the fetch_feed calls made so far: [status, undated] each
    items,        \* the current feed's items, sorted (lines 130-132)
    ii,           \* position of the inner loop in items
    count,        \* line 133
    keys,         \* the keys the final sort computed, in result order
    pc            \* "fetch", "walk", "endfeed", "final", "done", "error"

vars == <<nfeeds, per_feed, since_hours, max_total, clock, cutoff, all_items,
          seen_links, fi, fetched, items, ii, count, keys, pc>>

args == <<nfeeds, per_feed, since_hours, max_total, cutoff>>

\* harvest_all is entered: lines 125-127 have run.
Init ==
    /\ nfeeds \in 0..MaxFeeds
    /\ per_feed \in 0..MaxPerFeed
    /\ since_hours \in 0..MaxSince
    /\ max_total \in 0..MaxTotal
    /\ clock = Now0
    /\ cutoff = Aware(Now0 - since_hours, 0)
    /\ all_items = <<>>
    /\ seen_links = {}
    /\ fi = 1
    /\ fetched = <<>>
    /\ items = <<>>
    /\ ii = 1
    /\ count = 0
    /\ keys = <<>>
    /\ pc = "fetch"

\* The item the inner loop looks at, after lines 137-139.
Coerced(it) ==
    IF it.published.kind = "naive"
    THEN [it EXCEPT !.published = ReplaceTzUtc(it.published)]
    ELSE it

\* Mutant of TooOld: an undated item counts as older than the cutoff.
TooOld_Undated(it) == it.published.kind = "none" \/ DtLess(it.published, cutoff)

\* Line 140.
TooOld(it) == it.published.kind # "none" /\ DtLess(it.published, cutoff)

\* Mutant of Duplicate: links are remembered per feed only.
Duplicate_PerFeed(it) ==
    \E n \in 1..Len(all_items) :
        all_items[n].source = it.source /\ all_items[n].link = it.link

\* Line 143.
Duplicate(it) == it.link \in seen_links

\* Mutant of TotalReached: the total is compared with > instead of >=.
TotalReached_Strict(all) == Len(all) > max_total

\* Lines 148 and 150.
TotalReached(all) == Len(all) >= max_total

\* Mutant of PerFeedReached: the count is compared with > instead of >=.
PerFeedReached_OffByOne == count > per_feed

\* Line 135.
PerFeedReached == count >= per_feed

\* What one fetch_feed call returned: whether the feed was retrieved, and
\* whether every item of it lacks a timestamp.
Fetched(status, its) ==
    [status |-> status,
     undated |-> \A n \in 1..Len(its) : its[n].published.kind = "none"]

\* Lines 129-133 for a feed that is fetched and parsed: its entries become
\* items and are sorted.
FetchOk ==
    /\ pc = "fetch"
    /\ fi <= nfeeds
    /\ \E entries \in Feeds :
         LET its == fetch_feed(fi, entries)
         IN \E ticks \in TickChoices(its) :
              LET ks == SortKeys(its, ticks, clock, 1)
              IN /\ clock + SumSeq(ticks, Len(its)) <= MaxClock
                 /\ clock' = clock + SumSeq(ticks, Len(its))
                 /\ IF SortRaises(ks)
                    THEN /\ pc' = "error"
                         /\ items' = <<>>
                    ELSE /\ pc' = "walk"
                         /\ items' = ItemsOf(SortDesc(its, ks))
                 /\ fetched' = Append(fetched, Fetched("ok", its))
    /\ ii' = 1
    /\ count' = 0
    /\ UNCHANGED <<args, all_items, seen_links, fi, keys>>

\* Mutant of FetchFailed: the failure propagates as an exception.
FetchFailed_Raises ==
    /\ pc = "fetch"
    /\ fi <= nfeeds
    /\ fetched' = Append(fetched, Fetched("failed", <<>>))
    /\ items' = <<>>
    /\ ii' = 1
    /\ count' = 0
    /\ pc' = "error"
    /\ UNCHANGED <<args, clock, all_items, seen_links, fi, keys>>

\* Lines 129-133 for a feed whose retrieval or parse fails: feedparser.parse
\* records the error in the result (bozo) and delivers no entries.
FetchFailed ==
    /\ pc = "fetch"
    /\ fi <= nfeeds
    /\ fetched' = Append(fetched, Fetched("failed", <<>>))
    /\ items' = fetch_feed(fi, <<>>)
    /\ ii' = 1
    /\ count' = 0
    /\ pc' = "walk"
    /\ UNCHANGED <<args, clock, all_items, seen_links, fi, keys>>

\* Line 129: the source list is exhausted.
FeedsExhausted ==
    /\ pc = "fetch"
    /\ fi > nfeeds
    /\ pc' = "final"
    /\ UNCHANGED <<args, clock, all_items, seen_links, fi, fetched, items, ii, count, keys>>

\* Line 134: the feed's items are exhausted.
WalkExhausted ==
    /\ pc = "walk"
    /\ ii > Len(items)
    /\ pc' = "endfeed"
    /\ UNCHANGED <<args, clock, all_items, seen_links, fi, fetched, items, ii, count, keys>>

\* Lines 135-136.
WalkPerFeedBreak ==
    /\ pc = "walk"
    /\ ii <= Len(items)
    /\ PerFeedReached
    /\ pc' = "endfeed"
    /\ UNCHANGED <<args, clock, all_items, seen_links, fi, fetched, items, ii, count, keys>>

\* Lines 137-141.
WalkTooOld ==
    /\ pc = "walk"
    /\ ii <= Len(items)
    /\ ~PerFeedReached
    /\ TooOld(Coerced(items[ii]))
    /\ ii' = ii + 1
    /\ UNCHANGED <<args, clock, all_items, seen_links, fi, fetched, items, count, keys, pc>>

\* Lines 142-144.
WalkDuplicate ==
    /\ pc = "walk"
    /\ ii <= Len(items)
    /\ ~PerFeedReached
    /\ ~TooOld(Coerced(items[ii]))
    /\ Duplicate(Coerced(items[ii]))
    /\ ii' = ii + 1
    /\ UNCHANGED <<args, clock, all_items, seen_links, fi, fetched, items, count, keys, pc>>

\* Lines 145-149.
WalkAccept ==
    /\ pc = "walk"
    /\ ii <= Len(items)
    /\ ~PerFeedReached
    /\ LET it == Coerced(items[ii])
       IN /\ ~TooOld(it)
          /\ ~Duplicate(it)
          /\ seen_links' = seen_links \cup {it.link}
          /\ all_items' = Append(all_items, it)
          /\ count' = count + 1
          /\ IF TotalReached(Append(all_items, it))
             THEN pc' = "endfeed" /\ ii' = ii
             ELSE pc' = "walk" /\ ii' = ii + 1
    /\ UNCHANGED <<args, clock, fi, fetched, items, keys>>

\* Lines 150-151 and the step of the outer loop.
EndFeed ==
    /\ pc = "endfeed"
    /\ IF TotalReached(all_items)
       THEN pc' = "final" /\ fi' = fi
       ELSE pc' = "fetch" /\ fi' = fi + 1
    /\ items' = <<>>
    /\ ii' = 1
    /\ count' = 0
    /\ UNCHANGED <<args, clock, all_items, seen_links, fetched, keys>>

\* Lines 153-155.  Every accepted item is aware or undated, so this sort
\* cannot raise.
FinalSort ==
    /\ pc = "final"
    /\ \E ticks \in TickChoices(all_items) :
         LET ks == SortKeys(all_items, ticks, clock, 1)
             sorted == SortDesc(all_items, ks)
         IN /\ clock + SumSeq(ticks, Len(all_items)) <= MaxClock
            /\ clock' = clock + SumSeq(ticks, Len(all_items))
            /\ IF SortRaises(ks)
               THEN pc' = "error" /\ all_items' = all_items /\ keys' = <<>>
               ELSE pc' = "done" /\ all_items' = ItemsOf(sorted) /\ keys' = KeysOf(sorted)
    /\ UNCHANGED <<args, seen_links, fi, fetched, items, ii, count>>

Next ==
    \/ FetchOk
    \/ FetchFailed
    \/ FeedsExhausted
    \/ WalkExhausted
    \/ WalkPerFeedBreak
    \/ WalkTooOld
    \/ WalkDuplicate
    \/ WalkAccept
    \/ EndFeed
    \/ FinalSort

Spec == Init /\ [][Next]_vars

\* ------------------------------------------------------------------ properties
Returned == pc = "done"

Range(sq) == {sq[n] : n \in 1..Len(sq)}

Present(it) == it.published.kind # "none"

\* The number of accepted items that came from feed s.
AcceptedFrom(s) == Cardinality({n \in 1..Len(all_items) : all_items[n].source = s})

\* Fetch order: source-list order, then feed order within a source.
FetchedBefore(x, y) ==
    x.source < y.source \/ (x.source = y.source /\ x.title < y.title)

\* The item the inner loop has just passed, after lines 137-139.
Passed == Coerced(items[ii - 1])

\* C1: the list harvest_all returns has at most max_total items; with
\* max_total = 0 it is empty.
C1_AtMostTotal == Returned => Len(all_items) <= max_total

\* C2: no two accepted items carry the same non-empty link, whether they came
\* from the same feed or from different feeds.
C2_NoDuplicateLinks ==
    \A m, n \in 1..Len(all_items) :
        (m # n /\ all_items[m].link # "") => all_items[m].link # all_items[n].link

\* C2 witness: the item just passed was not too old, carries a non-empty link
\* that an item accepted from an earlier feed carries, and was not accepted.
C2_Witness ==
    /\ pc = "walk"
    /\ ii > 1
    /\ Passed.link # ""
    /\ ~TooOld(Passed)
    /\ Passed \notin Range(all_items)
    /\ \E x \in Range(all_items) : x.link = Passed.link /\ x.source < fi

\* C3: every accepted item with a timestamp is not older than the cutoff, and
\* an undated item that is looked at (per-feed limit not reached) and is no
\* duplicate is accepted: the recency filter never rejects it.
C3_Fresh == \A x \in Range(all_items) : Present(x) => ~DtLess(x.published, cutoff)

C3_UndatedStep ==
    (/\ pc = "walk"
     /\ ii <= Len(items)
     /\ count < per_feed
     /\ ~Present(items[ii])
     /\ items[ii].link \notin seen_links)
    => all_items' = Append(all_items, items[ii])

C3_Recency == []C3_Fresh /\ [][C3_UndatedStep]_vars

\* C3 witness: the returned list holds an item published exactly at the cutoff
\* and an undated item, after a feed whose dated item was older than the cutoff.
C3_Witness ==
    /\ Returned
    /\ \E x \in Range(all_items) : Present(x) /\ Instant(x.published) = Instant(cutoff)
    /\ \E x \in Range(all_items) : ~Present(x)
    /\ \E s \in 1..Len(fetched) : fetched[s].status = "ok" /\ AcceptedFrom(s) = 0

C5_PerFeedLimit ==
    /\ \A s \in 1..nfeeds : AcceptedFrom(s) <= per_feed
    /\ \A x \in Range(all_items) : x.source \in 1..nfeeds
    /\ pc \in {"walk", "endfeed"} => count = AcceptedFrom(fi)
    /\ per_feed = 0 => all_items = <<>>

\* C5 witness: the current feed has reached the per-feed limit with its last
\* item, after one of its items was rejected.
C5_Witness ==
    /\ pc = "endfeed"
    /\ per_feed >= 1
    /\ count = per_feed
    /\ Len(items) = count + 1
    /\ Coerced(items[Len(items)]) \in Range(all_items)

\* C6: an item with an empty link that passes the recency filter while
\* neither limit is reached is accepted, whatever was accepted before.
C6_EmptyLinkStep ==
    (/\ pc = "walk"
     /\ ii <= Len(items)
     /\ count < per_feed
     /\ Len(all_items) < max_total
     /\ items[ii].link = ""
     /\ ~TooOld(Coerced(items[ii])))
    => all_items' = Append(all_items, Coerced(items[ii]))

C6_EmptyLinksKept == [][C6_EmptyLinkStep]_vars

C8_FetchOrderKept ==
    (Returned /\ \A s \in 1..Len(fetched) : fetched[s].undated)
    => \A m, n \in 1..Len(all_items) :
         m < n => FetchedBefore(all_items[m], all_items[n])

\* C9: with per_feed = 0 or max_total = 0, harvest_all has fetched every feed
\* when it returns.
C9_EveryFeedFetched ==
    (Returned /\ (per_feed = 0 \/ max_total = 0)) => Len(fetched) = nfeeds

\* C9 as amended: with per_feed = 0 and max_total >= 1 every feed is fetched
\* before harvest_all returns; with max_total = 0 only the first feed is.
C9_FetchedUnderZeroLimits ==
    Returned =>
        /\ (per_feed = 0 /\ max_total >= 1) => Len(fetched) = nfeeds
        /\ max_total = 0 => Len(fetched) = (IF nfeeds = 0 THEN 0 ELSE 1)

\* C9 witness: harvest_all returned with max_total = 0 and a second feed that
\* was never fetched.
C9_Witness ==
    /\ Returned
    /\ max_total = 0
    /\ nfeeds >= 2
    /\ Len(fetched) = 1

\* C10: the aggregation never reaches the error state, and every returned item
\* with a timestamp carries a UTC offset.
C10_NaiveCoercedFirst ==
    /\ pc # "error"
    /\ Returned => \A x \in Range(all_items) : Present(x) => x.published.kind = "aware"

====
